---------------------------- MODULE Spec2Model ----------------------------
(***************************************************************************)
(* QRCodeSharer-Server: the write-behind queue (app/database/engine.py,    *)
(* DatabaseWriteQueue) and the IP admission guard (app/rate_limiter.py,    *)
(* RateLimiter), with the callers of app/app.py.                           *)
(*                                                                         *)
(* Three specifications share the module: SpecQueue runs the write queue  *)
(* (the caller of start/stop, one producer, the worker threads) with one   *)
(* payload, SpecMerge runs it with every payload, and SpecGuard runs the   *)
(* admission guard against a discrete clock.                               *)
(***************************************************************************)
EXTENDS Integers, Sequences, FiniteSets, TLC

\* ------------------------------------------------------------------ bounds
\* batch_size of the global write_queue is 30 (engine.py:147); scaled down.
BatchSize == 2
\* Number of add_operation calls of a run.
MaxOps == 3
\* Number of worker threads a run spawns (start() calls that find the queue
\* not running).
MaxWorkers == 2

\* Submissions in a run of the worker alone (no stop()): enough for two full
\* batches to wait in the queue.
MaxBacklog == 4

\* RateLimiter(max_failed_attempts=5, block_duration=6000,
\* max_blocked_ips=1000) and cleanup_interval = 60 (rate_limiter.py:115-117,
\* 28), scaled down; the clock runs from 0 to MaxTime and a failure count is
\* followed up to MaxCount.
MaxFailedAttempts == 2
BlockDuration == 2
MaxBlockedIps == 1
CleanupInterval == 3
MaxTime == 6
MaxCount == 3

\* Client addresses; "unknown" is the key of a request without a client
\* (rate_limiter.py:125, auth.py:9).
IPs == {"1.2.3.4", "unknown"}

\* Identity keys (Code.id) and payloads (Code.content) of patch_code.
Keys == {1, 2}
Contents == {"x", "y"}
\* patch_code is the only caller of add_operation and passes "merge".
OpKinds == {"merge"}

None == "None"
\* self.worker_thread = None
NoThread == -1
\* The thread that calls start() and stop() (the lifespan of app.py).
Main == 0
Workers == 1..MaxWorkers
Threads == Workers \cup {Main}

VARIABLES
    \* DatabaseWriteQueue
    queue,          \* self.queue: FIFO of operations
    running,        \* self.running
    worker_thread,  \* self.worker_thread: a thread of Workers, or NoThread
    flush_event,    \* self.flush_event: the Event's flag
    pc,             \* position of each thread (Main: the caller of start/stop)
    operations,     \* _flush's local list `operations`, per thread
    ppc,            \* position of the producer inside add_operation
    \* the sink (the sqlite table Code) and what the log records
    db,             \* Code rows: id -> content, None when there is no row
    applied,        \* operations merged by committed transactions, in order
    discarded,      \* operations of failed batches ("已丢弃 N 条失败的操作")
    \* history
    submitted,      \* every operation add_operation has put, in put order
    stopMark        \* add_operation calls completed when stop() was last called

qvars == <<queue, running, worker_thread, flush_event, pc, operations, ppc,
           db, applied, discarded, submitted, stopMark>>

VARIABLES
    \* RateLimiter
    now,               \* time.time(), in ticks
    last_cleanup,      \* self.last_cleanup
    failed_attempts,   \* self.failed_attempts: ip -> count (defaultdict(int))
    last_failed_time,  \* self.last_failed_time: ip -> time, NoTime when absent
    blocked_ips,       \* self.blocked_ips: dict in insertion order, as a
                       \* sequence of [ip, unblock_time]
    \* observation
    ret,               \* the guard call that returned last at this instant
    streak             \* per ip: record_failed_attempt calls since the ip had
                       \* no failure record, each within block_duration of the
                       \* one before (0: no such run)

VARIABLES
    \* guard calls in progress, statement by statement
    tpc,       \* position of each threadpool thread in record_failed_attempt
    tlocal,    \* its locals: ip, current_time, and the count it has read
    lpc,       \* position of the event loop thread in is_blocked
    llocal,    \* its locals: ip, current_time, the iterator over blocked_ips
               \* (size at creation, entries passed) and expired_ips
    raised,    \* the exception the last guard call ended with, or "none"
    returned,  \* per ip: record_failed_attempt calls returned, -1 once the
               \* count was zeroed or the entry removed by another path
    calls      \* record_failed_attempt calls made on the pool threads

tvars == <<tpc, tlocal, lpc, llocal, raised, returned, calls>>

gvars == <<now, last_cleanup, failed_attempts, last_failed_time, blocked_ips,
           ret, streak, tvars>>

vars == <<qvars, gvars>>

\* ----------------------------------------------------------------- helpers
SeqSet(s) == {s[i] : i \in 1..Len(s)}

RECURSIVE Concat(_, _)
Concat(f, S) ==
    IF S = {} THEN <<>>
    ELSE LET t == CHOOSE x \in S : \A y \in S : x <= y
         IN f[t] \o Concat(f, S \ {t})

Alive(w) == pc[w] # "dead"
LiveWorkers == {w \in Workers : Alive(w)}

\* ------------------------------------------------------------------- Init
InitQueue ==
    /\ queue = <<>>
    /\ running = FALSE
    /\ worker_thread = NoThread
    /\ flush_event = FALSE
    /\ pc = [t \in Threads |-> IF t = Main THEN "ready" ELSE "dead"]
    /\ operations = [t \in Threads |-> <<>>]
    /\ ppc = "idle"
    /\ db = [k \in Keys |-> None]
    /\ applied = <<>>
    /\ discarded = <<>>
    /\ submitted = <<>>
    /\ stopMark = 0

\* ---------------------------------------------------------- add_operation
\* self.queue.put({"operation": type, "model": model_instance})
QueuePut(type, id, content) ==
    /\ ppc = "idle"
    /\ LET op == [seq |-> Len(submitted) + 1, operation |-> type,
                  id |-> id, content |-> content]
       IN /\ queue' = Append(queue, op)
          /\ submitted' = Append(submitted, op)
    /\ ppc' = "signal"
    /\ UNCHANGED <<running, worker_thread, flush_event, pc, operations,
                   db, applied, discarded, stopMark>>
    /\ UNCHANGED gvars

\* add_operation up to its put, in a run of MaxOps submissions
AddOperationPut(type, id, content) ==
    /\ Len(submitted) < MaxOps
    /\ QueuePut(type, id, content)

\* the same in a run of MaxBacklog submissions
AddOperationPutBacklog(type, id, content) ==
    /\ Len(submitted) < MaxBacklog
    /\ QueuePut(type, id, content)

\* if self.queue.qsize() >= self.batch_size: self.flush_event.set()
AddOperationSignal ==
    /\ ppc = "signal"
    /\ flush_event' = IF Len(queue) >= BatchSize THEN TRUE ELSE flush_event
    /\ ppc' = "idle"
    /\ UNCHANGED <<queue, running, worker_thread, pc, operations,
                   db, applied, discarded, submitted, stopMark>>
    /\ UNCHANGED gvars

\* ------------------------------------------------------------ start, stop
\* threading.Thread(target=self._process_queue): the next thread object
\* (each start() that spawns makes a new one; a run spawns MaxWorkers).
NewThread == IF worker_thread = NoThread THEN 1 ELSE worker_thread + 1

MainFree == pc[Main] \in {"ready", "stopped"}

\* start(): returns at once when running, else sets running and starts a
\* new thread on _process_queue.
Start ==
    /\ MainFree
    /\ IF running
       THEN UNCHANGED <<running, worker_thread, pc>>
       ELSE \E w \in Workers :
              /\ w = NewThread
              /\ running' = TRUE
              /\ worker_thread' = w
              /\ pc' = [pc EXCEPT ![w] = "loop", ![Main] = "ready"]
    /\ UNCHANGED <<queue, flush_event, operations, ppc, db, applied,
                   discarded, submitted, stopMark>>
    /\ UNCHANGED gvars

\* stop(), first statement: self.running = False
Stop ==
    /\ MainFree
    /\ running' = FALSE
    /\ pc' = [pc EXCEPT ![Main] = "join"]
    /\ stopMark' = IF ppc = "idle" THEN Len(submitted) ELSE Len(submitted) - 1
    /\ UNCHANGED <<queue, worker_thread, flush_event, operations, ppc, db,
                   applied, discarded, submitted>>
    /\ UNCHANGED gvars

\* if self.worker_thread: self.worker_thread.join(timeout=10)
\* join returns when the thread has ended, or after 10 s; the worker can stay
\* alive that long only inside the sink's commit (sqlite waits up to 30 s for
\* a lock, engine.py:16,28), its wait being bounded by batch_interval.
JoinReturns ==
    IF worker_thread = NoThread THEN TRUE
    ELSE ~Alive(worker_thread) \/ pc[worker_thread] = "commit"

StopJoin ==
    /\ pc[Main] = "join"
    /\ JoinReturns
    /\ pc' = [pc EXCEPT ![Main] = "flush"]
    /\ UNCHANGED <<queue, running, worker_thread, flush_event, operations,
                   ppc, db, applied, discarded, submitted, stopMark>>
    /\ UNCHANGED gvars

\* --------------------------------------------------------- _process_queue
\* while self.running:
WorkerLoop(w) ==
    /\ w \in Workers
    /\ pc[w] = "loop"
    /\ pc' = [pc EXCEPT ![w] = IF running THEN "wait" ELSE "dead"]
    /\ UNCHANGED <<queue, running, worker_thread, flush_event, operations,
                   ppc, db, applied, discarded, submitted, stopMark>>
    /\ UNCHANGED gvars

\* triggered = self.flush_event.wait(timeout=self.batch_interval)
WorkerWait(w) ==
    /\ w \in Workers
    /\ pc[w] = "wait"
    /\ pc' = [pc EXCEPT ![w] = IF flush_event THEN "clear" ELSE "flush"]
    /\ UNCHANGED <<queue, running, worker_thread, flush_event, operations,
                   ppc, db, applied, discarded, submitted, stopMark>>
    /\ UNCHANGED gvars

\* if triggered: self.flush_event.clear()
WorkerClear(w) ==
    /\ w \in Workers
    /\ pc[w] = "clear"
    /\ flush_event' = FALSE
    /\ pc' = [pc EXCEPT ![w] = "flush"]
    /\ UNCHANGED <<queue, running, worker_thread, operations,
                   ppc, db, applied, discarded, submitted, stopMark>>
    /\ UNCHANGED gvars

\* ----------------------------------------------------------------- _flush
\* Where a thread goes when _flush returns: the worker to its loop test,
\* the caller of stop() out of stop().
AfterFlush(t) == IF t = Main THEN "stopped" ELSE "loop"

\* if self.queue.empty(): return
FlushEnter(t) ==
    /\ pc[t] = "flush"
    /\ pc' = [pc EXCEPT ![t] = IF queue = <<>> THEN AfterFlush(t) ELSE "dequeue"]
    /\ operations' = [operations EXCEPT ![t] = <<>>]
    /\ UNCHANGED <<queue, running, worker_thread, flush_event,
                   ppc, db, applied, discarded, submitted, stopMark>>
    /\ UNCHANGED gvars

\* Mutant of GetNowait: the item is read and left in the queue.
GetNowaitPeek(t) ==
    /\ operations' = [operations EXCEPT ![t] = Append(@, Head(queue))]
    /\ queue' = queue

\* operations.append(self.queue.get_nowait())
GetNowait(t) ==
    /\ operations' = [operations EXCEPT ![t] = Append(@, Head(queue))]
    /\ queue' = Tail(queue)

\* while not self.queue.empty() and count < self.batch_size: ... get_nowait()
\* (an Empty raised by get_nowait breaks the loop, as an empty() test does);
\* then: if not operations: return
FlushDequeue(t) ==
    /\ pc[t] = "dequeue"
    /\ IF queue # <<>> /\ Len(operations[t]) < BatchSize
       THEN /\ GetNowait(t)
            /\ pc' = pc
       ELSE /\ pc' = [pc EXCEPT ![t] = IF operations[t] = <<>>
                                      THEN AfterFlush(t) ELSE "commit"]
            /\ UNCHANGED <<queue, operations>>
    /\ UNCHANGED <<running, worker_thread, flush_event,
                   ppc, db, applied, discarded, submitted, stopMark>>
    /\ UNCHANGED gvars

\* for op in operations: if op["operation"] == "merge": session.merge(model)
RECURSIVE Merge(_, _)
Merge(rows, ops) ==
    IF ops = <<>> THEN rows
    ELSE LET op == Head(ops)
         IN Merge(IF op.operation = "merge"
                  THEN [rows EXCEPT ![op.id] = op.content]
                  ELSE rows,
                  Tail(ops))

Merged(ops) == SelectSeq(ops, LAMBDA op : op.operation = "merge")

\* session.commit() succeeds: the batch is applied in one transaction.
CommitOk(t) ==
    /\ db' = Merge(db, operations[t])
    /\ applied' = applied \o Merged(operations[t])
    /\ UNCHANGED <<queue, discarded>>

\* Mutant of CommitFail: the failed batch is put back on the queue.
CommitFailRequeue(t) ==
    /\ discarded' = discarded \o operations[t]
    /\ queue' = queue \o operations[t]
    /\ UNCHANGED <<db, applied>>

\* except Exception: the batch is logged as discarded, not requeued.
CommitFail(t) ==
    /\ discarded' = discarded \o operations[t]
    /\ UNCHANGED <<queue, db, applied>>

\* Mutant of AfterFailure: the exception leaves _flush and ends the thread.
AfterFailureRaises(t) == IF t = Main THEN "stopped" ELSE "dead"

\* except Exception as e: logs and does not re-raise, so _flush returns as
\* after a commit
AfterFailure(t) == AfterFlush(t)

FlushCommit(t) ==
    /\ pc[t] = "commit"
    /\ \/ CommitOk(t) /\ pc' = [pc EXCEPT ![t] = AfterFlush(t)]
       \/ CommitFail(t) /\ pc' = [pc EXCEPT ![t] = AfterFailure(t)]
    /\ operations' = [operations EXCEPT ![t] = <<>>]
    /\ UNCHANGED <<running, worker_thread, flush_event, ppc, submitted,
                   stopMark>>
    /\ UNCHANGED gvars

\* ============================================================ RateLimiter
\* An ip absent from last_failed_time.
NoTime == -1
NoIp == "-"

InitGuard ==
    /\ now = 0
    /\ last_cleanup = 0
    /\ failed_attempts = [ip \in IPs |-> 0]
    /\ last_failed_time = [ip \in IPs |-> NoTime]
    /\ blocked_ips = <<>>
    /\ ret = [op |-> "none", ip |-> NoIp, value |-> FALSE, swept |-> FALSE]
    /\ streak = [ip \in IPs |-> 0]

\* The RateLimiter's fields, as one value.
Guard ==
    [last_cleanup |-> last_cleanup, failed_attempts |-> failed_attempts,
     last_failed_time |-> last_failed_time, blocked_ips |-> blocked_ips]

SetGuard(g) ==
    /\ last_cleanup' = g.last_cleanup
    /\ failed_attempts' = g.failed_attempts
    /\ last_failed_time' = g.last_failed_time
    /\ blocked_ips' = g.blocked_ips

\* dict operations on blocked_ips
InDict(d, ip) == \E i \in 1..Len(d) : d[i].ip = ip
DictGet(d, ip) == d[CHOOSE i \in 1..Len(d) : d[i].ip = ip].unblock_time
DictDel(d, ip) == SelectSeq(d, LAMBDA e : e.ip # ip)
\* d[ip] = v: a key already present keeps its place, a new one goes last
DictSet(d, ip, v) ==
    IF InDict(d, ip)
    THEN [i \in 1..Len(d) |->
            IF d[i].ip = ip THEN [ip |-> ip, unblock_time |-> v] ELSE d[i]]
    ELSE Append(d, [ip |-> ip, unblock_time |-> v])

\* del self.blocked_ips[ip]; self.failed_attempts[ip] = 0;
\* if ip in self.last_failed_time: del self.last_failed_time[ip]
Forget(g, ip) ==
    [g EXCEPT !.blocked_ips = DictDel(@, ip),
              !.failed_attempts[ip] = 0,
              !.last_failed_time[ip] = NoTime]

RECURSIVE ForgetAll(_, _)
ForgetAll(g, ips) ==
    IF ips = <<>> THEN g ELSE ForgetAll(Forget(g, Head(ips)), Tail(ips))

\* Mutant of IsExpired: the comparison reversed.
IsExpiredReversed(unblock_time, current_time) == unblock_time >= current_time

\* if unblock_time <= current_time
IsExpired(unblock_time, current_time) == unblock_time <= current_time

\* Mutant of Sorted: largest unblock_time first.
RECURSIVE SortedNewestFirst(_)
SortedNewestFirst(d) ==
    IF d = <<>> THEN <<>>
    ELSE LET i == CHOOSE i \in 1..Len(d) :
                    \A j \in 1..Len(d) :
                        \/ d[i].unblock_time > d[j].unblock_time
                        \/ d[i].unblock_time = d[j].unblock_time /\ i <= j
         IN <<d[i]>> \o SortedNewestFirst(SubSeq(d, 1, i - 1)
                                            \o SubSeq(d, i + 1, Len(d)))

\* sorted(self.blocked_ips.items(), key=lambda x: x[1]): stable, so entries
\* of equal unblock_time keep their dict order
RECURSIVE Sorted(_)
Sorted(d) ==
    IF d = <<>> THEN <<>>
    ELSE LET i == CHOOSE i \in 1..Len(d) :
                    \A j \in 1..Len(d) :
                        \/ d[i].unblock_time < d[j].unblock_time
                        \/ d[i].unblock_time = d[j].unblock_time /\ i <= j
         IN <<d[i]>> \o Sorted(SubSeq(d, 1, i - 1) \o SubSeq(d, i + 1, Len(d)))

RECURSIVE DelAll(_, _)
DelAll(d, es) ==
    IF es = <<>> THEN d ELSE DelAll(DictDel(d, Head(es).ip), Tail(es))

\* Mutant of Overflow: one entry too few.
OverflowShort(d) == Len(d) - MaxBlockedIps - 1

\* [: len(self.blocked_ips) - self.max_blocked_ips]
Overflow(d) == Len(d) - MaxBlockedIps

\* if len(self.blocked_ips) > self.max_blocked_ips: delete the entries of
\* smallest unblock_time (from blocked_ips alone)
Evict(d) ==
    IF Len(d) > MaxBlockedIps
    THEN DelAll(d, SubSeq(Sorted(d), 1, Overflow(d)))
    ELSE d

\* if current_time - self.last_cleanup < self.cleanup_interval: return
Swept(g, current_time) == ~(current_time - g.last_cleanup < CleanupInterval)

cleanup_expired(g, current_time) ==
    IF ~Swept(g, current_time) THEN g
    ELSE LET expired_ips ==
                 SelectSeq(g.blocked_ips,
                           LAMBDA e : IsExpired(e.unblock_time, current_time))
             g1 == ForgetAll([g EXCEPT !.last_cleanup = current_time],
                             [i \in 1..Len(expired_ips) |-> expired_ips[i].ip])
         IN [g1 EXCEPT !.blocked_ips = Evict(@)]

\* Mutant of StillBlocked: <= in place of <.
StillBlockedInclusive(current_time, unblock_time) == current_time <= unblock_time

\* if time.time() < self.blocked_ips[ip]
StillBlocked(current_time, unblock_time) == current_time < unblock_time

\* is_blocked(ip): the fields afterwards and the value returned
is_blocked(g, ip, current_time) ==
    LET g1 == cleanup_expired(g, current_time)
    IN IF InDict(g1.blocked_ips, ip)
       THEN IF StillBlocked(current_time, DictGet(g1.blocked_ips, ip))
            THEN [g |-> g1, value |-> TRUE]
            ELSE [g |-> Forget(g1, ip), value |-> FALSE]
       ELSE [g |-> g1, value |-> FALSE]

\* Mutant of WindowElapsed: cleanup_interval in place of block_duration.
WindowElapsedByInterval(current_time, last) == current_time - last > CleanupInterval

\* if current_time - self.last_failed_time[ip] > self.block_duration
WindowElapsed(current_time, last) == current_time - last > BlockDuration

\* Mutant of ReachedLimit: > in place of >=.
ReachedLimitStrict(count) == count > MaxFailedAttempts

\* if self.failed_attempts[ip] >= self.max_failed_attempts
ReachedLimit(count) == count >= MaxFailedAttempts

\* record_failed_attempt(ip): the fields afterwards and the value returned
record_failed_attempt(g, ip, current_time) ==
    LET count0 == IF /\ g.last_failed_time[ip] # NoTime
                     /\ WindowElapsed(current_time, g.last_failed_time[ip])
                  THEN 0 ELSE g.failed_attempts[ip]
        g1 == [g EXCEPT !.failed_attempts[ip] = count0 + 1,
                        !.last_failed_time[ip] = current_time]
    IN IF ReachedLimit(g1.failed_attempts[ip])
       THEN [g |-> [g1 EXCEPT !.blocked_ips =
                        DictSet(@, ip, current_time + BlockDuration)],
             value |-> TRUE]
       ELSE [g |-> g1, value |-> FALSE]

\* Mutant of unblock_ip: the entry is deleted and the count is kept.
unblock_ip_keeps_count(g, ip) ==
    IF InDict(g.blocked_ips, ip)
    THEN [g EXCEPT !.blocked_ips = DictDel(@, ip)]
    ELSE g

\* unblock_ip of app.py: if ip in blocked_ips: del blocked_ips[ip];
\* failed_attempts[ip] = 0
unblock_ip(g, ip) ==
    IF InDict(g.blocked_ips, ip)
    THEN [g EXCEPT !.blocked_ips = DictDel(@, ip), !.failed_attempts[ip] = 0]
    ELSE g

\* max(0, int(unblock_time - time.time()))
Remaining(unblock_time, current_time) ==
    IF unblock_time - current_time > 0 THEN unblock_time - current_time ELSE 0

\* get_block_info(ip): the dict returned, without the formatted unblock_time
get_block_info(g, ip, current_time) ==
    IF InDict(g.blocked_ips, ip)
    THEN [blocked |-> TRUE,
          remaining_seconds |->
              Remaining(DictGet(g.blocked_ips, ip), current_time)]
    ELSE [blocked |-> FALSE, remaining_seconds |-> 0]

\* An ip with no failure record: no count, no last failure, no block.
NoRecord(g, ip) ==
    /\ g.failed_attempts[ip] = 0
    /\ g.last_failed_time[ip] = NoTime
    /\ ~InDict(g.blocked_ips, ip)

\* streak after the fields became g (no record_failed_attempt call)
StreakKept(g) == [ip \in IPs |-> IF NoRecord(g, ip) THEN 0 ELSE streak[ip]]

\* ---------------------------------------------------------- guard actions
Tick ==
    /\ now < MaxTime
    /\ now' = now + 1
    /\ ret' = [op |-> "none", ip |-> NoIp, value |-> FALSE, swept |-> FALSE]
    /\ UNCHANGED <<last_cleanup, failed_attempts, last_failed_time,
                   blocked_ips, streak>>
    /\ UNCHANGED <<qvars, tvars>>

CallCleanupExpired ==
    LET g == cleanup_expired(Guard, now)
    IN /\ SetGuard(g)
       /\ ret' = [op |-> "cleanup_expired", ip |-> NoIp, value |-> FALSE,
                  swept |-> Swept(Guard, now)]
       /\ streak' = StreakKept(g)
       /\ UNCHANGED now
       /\ UNCHANGED <<qvars, tvars>>

CallIsBlocked(ip) ==
    LET r == is_blocked(Guard, ip, now)
    IN /\ SetGuard(r.g)
       /\ ret' = [op |-> "is_blocked", ip |-> ip, value |-> r.value,
                  swept |-> Swept(Guard, now)]
       /\ streak' = StreakKept(r.g)
       /\ UNCHANGED now
       /\ UNCHANGED <<qvars, tvars>>

CallRecordFailedAttempt(ip) ==
    LET r == record_failed_attempt(Guard, ip, now)
    IN /\ r.g.failed_attempts[ip] <= MaxCount
       /\ SetGuard(r.g)
       /\ ret' = [op |-> "record_failed_attempt", ip |-> ip,
                  value |-> r.value, swept |-> FALSE]
       /\ streak' =
            [streak EXCEPT ![ip] =
                IF NoRecord(Guard, ip) THEN 1
                ELSE IF @ > 0 /\ now - last_failed_time[ip] <= BlockDuration
                     THEN IF @ < MaxFailedAttempts THEN @ + 1
                          ELSE MaxFailedAttempts + 1
                     ELSE 0]
       /\ UNCHANGED now
       /\ UNCHANGED <<qvars, tvars>>

CallUnblockIp(ip) ==
    LET g == unblock_ip(Guard, ip)
    IN /\ SetGuard(g)
       /\ ret' = [op |-> "unblock_ip", ip |-> ip,
                  value |-> InDict(blocked_ips, ip), swept |-> FALSE]
       /\ streak' = StreakKept(g)
       /\ UNCHANGED now
       /\ UNCHANGED <<qvars, tvars>>

\* get_block_status of app.py: reads, changes nothing
CallGetBlockInfo(ip) ==
    LET info == get_block_info(Guard, ip, now)
    IN /\ ret' = [op |-> "get_block_info", ip |-> ip,
                  value |-> info.blocked, swept |-> FALSE]
       /\ UNCHANGED <<last_cleanup, failed_attempts, last_failed_time,
                      blocked_ips, streak>>
       /\ UNCHANGED now
       /\ UNCHANGED <<qvars, tvars>>

NextGuard ==
    \/ Tick
    \/ CallCleanupExpired
    \/ \E ip \in IPs : CallIsBlocked(ip)
    \/ \E ip \in IPs : CallRecordFailedAttempt(ip)
    \/ \E ip \in IPs : CallUnblockIp(ip)
    \/ \E ip \in IPs : CallGetBlockInfo(ip)

\* ================================================ guard calls in threads
\* check_user and check_root are plain functions, which the framework runs
\* on threadpool threads (auth.py:8-33); the middleware's is_blocked runs on
\* the event loop thread (rate_limiter.py:120-137). The interpreter can
\* switch threads between any two statements below.
MaxPool == 2
Pool == 1..MaxPool

\* Failed requests in a run of the threads.
MaxCalls == 3

NoLocal == [ip |-> NoIp, current_time |-> 0, count |-> 0]
NoLoopLocal ==
    [ip |-> NoIp, current_time |-> 0, size |-> 0, i |-> 0, expired_ips |-> <<>>]

InitThreads ==
    /\ tpc = [p \in Pool |-> "idle"]
    /\ tlocal = [p \in Pool |-> NoLocal]
    /\ lpc = "idle"
    /\ llocal = NoLoopLocal
    /\ raised = "none"
    /\ returned = [ip \in IPs |-> 0]
    /\ calls = 0

\* returned after a step that zeroed counts or removed entries: the ips
\* whose count or entry another path changed are no longer followed.
Followed(failed, blocked) ==
    [ip \in IPs |->
        IF \/ failed[ip] # failed_attempts[ip]
           \/ InDict(blocked_ips, ip) /\ ~InDict(blocked, ip)
        THEN -1 ELSE returned[ip]]

\* --------------------------------- record_failed_attempt, on thread p
\* current_time = time.time()
RecordEnter(p, ip) ==
    /\ tpc[p] = "idle"
    /\ calls < MaxCalls
    /\ calls' = calls + 1
    /\ tlocal' = [tlocal EXCEPT ![p] = [NoLocal EXCEPT !.ip = ip,
                                                       !.current_time = now]]
    /\ tpc' = [tpc EXCEPT ![p] = "in"]
    /\ raised' = "none"
    /\ UNCHANGED <<now, last_cleanup, failed_attempts, last_failed_time,
                   blocked_ips, ret, streak, lpc, llocal, returned>>
    /\ UNCHANGED qvars

\* if ip in self.last_failed_time:
RecordIn(p) ==
    /\ tpc[p] = "in"
    /\ tpc' = [tpc EXCEPT ![p] =
                 IF last_failed_time[tlocal[p].ip] # NoTime
                 THEN "get" ELSE "load"]
    /\ UNCHANGED <<now, last_cleanup, failed_attempts, last_failed_time,
                   blocked_ips, ret, streak, tlocal, lpc, llocal, raised,
                   returned>>
    /\ UNCHANGED <<qvars, calls>>

\* if current_time - self.last_failed_time[ip] > self.block_duration:
\*     self.failed_attempts[ip] = 0
\* The subscript raises KeyError when the key is gone since the test.
RecordGet(p) ==
    LET ip == tlocal[p].ip
    IN /\ tpc[p] = "get"
       /\ IF last_failed_time[ip] = NoTime
          THEN /\ raised' = "KeyError"
               /\ tpc' = [tpc EXCEPT ![p] = "idle"]
               /\ tlocal' = [tlocal EXCEPT ![p] = NoLocal]
               /\ UNCHANGED <<failed_attempts, returned>>
          ELSE /\ failed_attempts' =
                    IF WindowElapsed(tlocal[p].current_time,
                                     last_failed_time[ip])
                    THEN [failed_attempts EXCEPT ![ip] = 0]
                    ELSE failed_attempts
               /\ returned' = Followed(failed_attempts', blocked_ips)
               /\ tpc' = [tpc EXCEPT ![p] = "load"]
               /\ UNCHANGED <<tlocal, raised>>
       /\ UNCHANGED <<now, last_cleanup, last_failed_time, blocked_ips,
                      ret, streak, lpc, llocal>>
       /\ UNCHANGED <<qvars, calls>>

\* self.failed_attempts[ip] += 1, the read
RecordLoad(p) ==
    /\ tpc[p] = "load"
    /\ tlocal' = [tlocal EXCEPT ![p].count = failed_attempts[tlocal[p].ip]]
    /\ tpc' = [tpc EXCEPT ![p] = "store"]
    /\ UNCHANGED <<now, last_cleanup, failed_attempts, last_failed_time,
                   blocked_ips, ret, streak, lpc, llocal, raised, returned>>
    /\ UNCHANGED <<qvars, calls>>

\* self.failed_attempts[ip] += 1, the write
RecordStore(p) ==
    /\ tpc[p] = "store"
    /\ failed_attempts' =
          [failed_attempts EXCEPT ![tlocal[p].ip] = tlocal[p].count + 1]
    /\ tpc' = [tpc EXCEPT ![p] = "time"]
    /\ UNCHANGED <<now, last_cleanup, last_failed_time, blocked_ips, ret,
                   streak, tlocal, lpc, llocal, raised, returned>>
    /\ UNCHANGED <<qvars, calls>>

\* self.last_failed_time[ip] = current_time
RecordTime(p) ==
    /\ tpc[p] = "time"
    /\ last_failed_time' =
          [last_failed_time EXCEPT ![tlocal[p].ip] = tlocal[p].current_time]
    /\ tpc' = [tpc EXCEPT ![p] = "limit"]
    /\ UNCHANGED <<now, last_cleanup, failed_attempts, blocked_ips, ret,
                   streak, tlocal, lpc, llocal, raised, returned>>
    /\ UNCHANGED <<qvars, calls>>

\* if self.failed_attempts[ip] >= self.max_failed_attempts:
\*     self.blocked_ips[ip] = current_time + self.block_duration
\* and the return
RecordLimit(p) ==
    LET ip == tlocal[p].ip
    IN /\ tpc[p] = "limit"
       /\ blocked_ips' =
            IF ReachedLimit(failed_attempts[ip])
            THEN DictSet(blocked_ips, ip,
                         tlocal[p].current_time + BlockDuration)
            ELSE blocked_ips
       /\ returned' = [returned EXCEPT ![ip] = IF @ < 0 THEN @ ELSE @ + 1]
       /\ tpc' = [tpc EXCEPT ![p] = "idle"]
       /\ tlocal' = [tlocal EXCEPT ![p] = NoLocal]
       /\ UNCHANGED <<now, last_cleanup, failed_attempts, last_failed_time,
                      ret, streak, lpc, llocal, raised>>
       /\ UNCHANGED <<qvars, calls>>

\* ------------------------------------- is_blocked, on the event loop
\* is_blocked(ip) enters cleanup_expired: the interval test, and for a sweep
\* last_cleanup = current_time and the iterator over blocked_ips.items()
IsBlockedEnter(ip) ==
    /\ lpc = "idle"
    /\ raised' = "none"
    /\ IF Swept(Guard, now)
       THEN /\ last_cleanup' = now
            /\ llocal' = [NoLoopLocal EXCEPT !.ip = ip, !.current_time = now,
                                             !.size = Len(blocked_ips)]
            /\ lpc' = "scan"
       ELSE /\ llocal' = [NoLoopLocal EXCEPT !.ip = ip, !.current_time = now]
            /\ lpc' = "in"
            /\ UNCHANGED last_cleanup
    /\ UNCHANGED <<now, failed_attempts, last_failed_time, blocked_ips, ret,
                   streak, tpc, tlocal, returned>>
    /\ UNCHANGED <<qvars, calls>>

\* one step of the iterator inside the list comprehension: it raises
\* RuntimeError (dictionary changed size during iteration) when the dict's
\* size is not the one it was created with
CleanupScan ==
    /\ lpc = "scan"
    /\ IF Len(blocked_ips) # llocal.size
       THEN /\ raised' = "RuntimeError"
            /\ lpc' = "idle"
            /\ llocal' = NoLoopLocal
       ELSE /\ IF llocal.i = Len(blocked_ips)
               THEN /\ lpc' = "del"
                    /\ UNCHANGED llocal
               ELSE LET e == blocked_ips[llocal.i + 1]
                    IN /\ llocal' =
                            [llocal EXCEPT
                               !.i = @ + 1,
                               !.expired_ips =
                                  IF IsExpired(e.unblock_time,
                                               llocal.current_time)
                                  THEN Append(@, e.ip) ELSE @]
                       /\ UNCHANGED lpc
            /\ UNCHANGED raised
    /\ UNCHANGED <<now, last_cleanup, failed_attempts, last_failed_time,
                   blocked_ips, ret, streak, tpc, tlocal, returned>>
    /\ UNCHANGED <<qvars, calls>>

\* for ip in expired_ips: del, count = 0, del last_failed_time; one ip a step
CleanupDel ==
    /\ lpc = "del"
    /\ IF llocal.expired_ips = <<>>
       THEN /\ lpc' = "evict"
            /\ UNCHANGED <<llocal, failed_attempts, last_failed_time,
                           blocked_ips, returned, raised>>
       ELSE IF ~InDict(blocked_ips, Head(llocal.expired_ips))
       THEN /\ raised' = "KeyError"
            /\ lpc' = "idle"
            /\ llocal' = NoLoopLocal
            /\ UNCHANGED <<failed_attempts, last_failed_time, blocked_ips,
                           returned>>
       ELSE LET g == Forget(Guard, Head(llocal.expired_ips))
            IN /\ failed_attempts' = g.failed_attempts
               /\ last_failed_time' = g.last_failed_time
               /\ blocked_ips' = g.blocked_ips
               /\ returned' = Followed(g.failed_attempts, g.blocked_ips)
               /\ llocal' = [llocal EXCEPT !.expired_ips = Tail(@)]
               /\ UNCHANGED <<lpc, raised>>
    /\ UNCHANGED <<now, last_cleanup, ret, streak, tpc, tlocal>>
    /\ UNCHANGED <<qvars, calls>>

\* the capacity eviction, and back in is_blocked
CleanupEvict ==
    /\ lpc = "evict"
    /\ blocked_ips' = Evict(blocked_ips)
    /\ returned' = Followed(failed_attempts, blocked_ips')
    /\ lpc' = "in"
    /\ UNCHANGED <<now, last_cleanup, failed_attempts, last_failed_time,
                   ret, streak, tpc, tlocal, llocal, raised>>
    /\ UNCHANGED <<qvars, calls>>

\* if ip in self.blocked_ips: (else return False)
IsBlockedIn ==
    /\ lpc = "in"
    /\ IF InDict(blocked_ips, llocal.ip)
       THEN lpc' = "get" /\ UNCHANGED llocal
       ELSE lpc' = "idle" /\ llocal' = NoLoopLocal
    /\ UNCHANGED <<now, last_cleanup, failed_attempts, last_failed_time,
                   blocked_ips, ret, streak, tpc, tlocal, raised, returned>>
    /\ UNCHANGED <<qvars, calls>>

\* if time.time() < self.blocked_ips[ip]: return True; else the entry is
\* removed, the count zeroed, and False returned
IsBlockedGet ==
    /\ lpc = "get"
    /\ IF ~InDict(blocked_ips, llocal.ip)
       THEN /\ raised' = "KeyError"
            /\ UNCHANGED <<failed_attempts, last_failed_time, blocked_ips,
                           returned>>
       ELSE IF StillBlocked(now, DictGet(blocked_ips, llocal.ip))
       THEN UNCHANGED <<failed_attempts, last_failed_time, blocked_ips,
                        returned, raised>>
       ELSE LET g == Forget(Guard, llocal.ip)
            IN /\ failed_attempts' = g.failed_attempts
               /\ last_failed_time' = g.last_failed_time
               /\ blocked_ips' = g.blocked_ips
               /\ returned' = Followed(g.failed_attempts, g.blocked_ips)
               /\ UNCHANGED raised
    /\ lpc' = "idle"
    /\ llocal' = NoLoopLocal
    /\ UNCHANGED <<now, last_cleanup, ret, streak, tpc, tlocal>>
    /\ UNCHANGED <<qvars, calls>>

\* Both objects are built when their modules are imported.
Init == InitQueue /\ InitGuard /\ InitThreads

SpecGuard == Init /\ [][NextGuard]_vars

\* ------------------------------------------------------------------- Next
\* Every step of the write queue but add_operation's put.
QueueStep ==
    \/ AddOperationSignal
    \/ Start
    \/ Stop
    \/ StopJoin
    \/ \E w \in Workers : WorkerLoop(w)
    \/ \E w \in Workers : WorkerWait(w)
    \/ \E w \in Workers : WorkerClear(w)
    \/ \E t \in Threads : FlushEnter(t)
    \/ \E t \in Threads : FlushDequeue(t)
    \/ \E t \in Threads : FlushCommit(t)

\* The queue with one payload: what it does with an operation (order,
\* batching, threads) does not read the payload.
NextQueue ==
    \/ \E type \in OpKinds : AddOperationPut(type, 1, "x")
    \/ QueueStep

SpecQueue == Init /\ [][NextQueue]_vars

\* The queue with every payload of Keys and Contents, for what the sink
\* stores.
NextMerge ==
    \/ \E type \in OpKinds, id \in Keys, content \in Contents :
         AddOperationPut(type, id, content)
    \/ QueueStep

SpecMerge == Init /\ [][NextMerge]_vars

\* One step of worker w, from its loop test to the end of its _flush.
WorkerStep(w) ==
    \/ WorkerLoop(w)
    \/ WorkerWait(w)
    \/ WorkerClear(w)
    \/ FlushEnter(w)
    \/ FlushDequeue(w)
    \/ FlushCommit(w)

\* The application between start() and stop() (app.py:52-58): producers
\* submit, the one worker runs, nobody calls stop().
NextWorker ==
    \/ \E type \in OpKinds : AddOperationPutBacklog(type, 1, "x")
    \/ AddOperationSignal
    \/ Start
    \/ \E w \in Workers : WorkerStep(w)

\* The worker is a thread of its own and is scheduled again and again; none
\* of its steps waits without bound (the wait has a timeout, get_nowait
\* does not block, the commit returns or raises).
SpecWorker ==
    Init /\ [][NextWorker]_vars /\ \A w \in Workers : WF_vars(WorkerStep(w))

\* The guard with its calls interleaved: failures recorded on the pool
\* threads, is_blocked on the event loop, the clock.
\* The clock, in a run followed up to the instant the first sweep is due.
TickToSweep ==
    /\ now < CleanupInterval
    /\ Tick

NextThreads ==
    \/ TickToSweep
    \/ \E p \in Pool, ip \in IPs : RecordEnter(p, ip)
    \/ \E p \in Pool : RecordIn(p)
    \/ \E p \in Pool : RecordGet(p)
    \/ \E p \in Pool : RecordLoad(p)
    \/ \E p \in Pool : RecordStore(p)
    \/ \E p \in Pool : RecordTime(p)
    \/ \E p \in Pool : RecordLimit(p)
    \/ \E ip \in IPs : IsBlockedEnter(ip)
    \/ CleanupScan
    \/ CleanupDel
    \/ CleanupEvict
    \/ IsBlockedIn
    \/ IsBlockedGet

SpecThreads == Init /\ [][NextThreads]_vars

\* ============================================================== claims
\* Everything that holds an operation, in one sequence.
Held == queue \o Concat(operations, Threads) \o applied \o discarded

AppliedSeqs == {applied[i].seq : i \in 1..Len(applied)}

\* C1: when stop() returns and no commit has failed, every operation whose
\* add_operation call had completed when stop() was called has been applied
\* to the sink.
C1_StopDeliversAll ==
    (pc[Main] = "stopped" /\ discarded = <<>>)
        => \A n \in 1..stopMark : n \in AppliedSeqs

\* C2: the sink applies operations in submission order, within a batch and
\* across batches.
C2_FifoOrder ==
    \A i, j \in 1..Len(applied) :
        i < j => applied[i].seq < applied[j].seq

\* C3: no operation is dequeued or handed to the sink more than once: each
\* submitted operation is held in exactly one place (the queue, one
\* thread's batch, the applied operations or the discarded ones), once.
C3_AtMostOnce ==
    /\ \A i, j \in 1..Len(Held) : i # j => Held[i].seq # Held[j].seq
    /\ {Held[i] : i \in 1..Len(Held)} = SeqSet(submitted)

\* C3's case: stop(); start(); stop() has run (the second spawned thread is
\* the current one and stop() has returned) and operations were committed.
C3_Witness ==
    /\ pc[Main] = "stopped"
    /\ worker_thread = 2
    /\ Len(applied) >= 2

\* C4: a failed commit discards its batch: the step applies nothing and
\* leaves the queue as it is, and a discarded operation is never in the
\* queue, in a batch or applied afterwards.
C4_FailedBatchDropped ==
    [][/\ discarded' # discarded
            => (applied' = applied /\ db' = db /\ queue' = queue)
       /\ \A i \in 1..Len(discarded') :
            /\ discarded'[i] \notin SeqSet(applied')
            /\ discarded'[i] \notin SeqSet(queue')
            /\ \A t \in Threads : discarded'[i] \notin SeqSet(operations'[t])
      ]_vars

\* C4's case: a batch failed while operations were queued behind it, and a
\* later batch was committed.
C4_Witness ==
    /\ discarded # <<>>
    /\ queue # <<>>
    /\ applied # <<>>
    /\ applied[Len(applied)].seq > discarded[1].seq

\* C5: at most one thread runs _process_queue at any time.
C5_OneWorker == Cardinality(LiveWorkers) <= 1

\* The content of the last operation submitted for a key, None without one.
LastContent(k) ==
    LET idx == {i \in 1..Len(submitted) : submitted[i].id = k}
    IN IF idx = {} THEN None
       ELSE submitted[CHOOSE i \in idx : \A j \in idx : j <= i].content

\* C6: once every submitted operation has been committed without a failure,
\* each row of the sink holds the content of the last operation submitted
\* for its key.
C6_LastWriteWins ==
    (/\ queue = <<>>
     /\ \A t \in Threads : operations[t] = <<>>
     /\ discarded = <<>>)
        => \A k \in Keys : db[k] = LastContent(k)

\* C7: in a run of record_failed_attempt(ip) calls that starts from an ip
\* with no failure record, each call at most block_duration after the one
\* before, calls 1..M-1 return false and leave ip without a Block Entry, and
\* call M returns true and leaves the entry now + block_duration, with which
\* is_blocked(ip) answers true at once (M = max_failed_attempts).
C7_BlockOnMthFailure ==
    \A ip \in IPs :
        (/\ ret.op = "record_failed_attempt"
         /\ ret.ip = ip
         /\ streak[ip] \in 1..MaxFailedAttempts)
        => IF streak[ip] < MaxFailedAttempts
           THEN ret.value = FALSE /\ ~InDict(blocked_ips, ip)
           ELSE /\ ret.value = TRUE
                /\ InDict(blocked_ips, ip)
                /\ DictGet(blocked_ips, ip) = now + BlockDuration
                /\ is_blocked(Guard, ip, now).value = TRUE

\* C7's case: the M-th call of such a run has just returned, while the other
\* ip holds a Block Entry and the next is_blocked will sweep.
C7_Witness ==
    \E ip \in IPs :
        /\ ret.op = "record_failed_attempt"
        /\ ret.ip = ip
        /\ streak[ip] = MaxFailedAttempts
        /\ Len(blocked_ips) > MaxBlockedIps
        /\ Swept(Guard, now)

\* C8: a record_failed_attempt(ip) call made more than block_duration after
\* ip's last recorded failure leaves the count at 1, returns false and leaves
\* the Block Entries as they were (max_failed_attempts > 1).
C8_ResetAfterWindow ==
    [][\A ip \in IPs :
          (/\ CallRecordFailedAttempt(ip)
           /\ last_failed_time[ip] # NoTime
           /\ now - last_failed_time[ip] > BlockDuration)
          => /\ failed_attempts'[ip] = 1
             /\ ret'.value = FALSE
             /\ blocked_ips' = blocked_ips
      ]_vars

\* C8's case: the call came after the window while ip still had its expired
\* Block Entry, so the count fell from max_failed_attempts or more to 1.
C8_Witness ==
    \E ip \in IPs :
        /\ ret.op = "record_failed_attempt"
        /\ ret.ip = ip
        /\ failed_attempts[ip] = 1
        /\ InDict(blocked_ips, ip)
        /\ last_failed_time[ip] = now

\* C9 as claimed: whenever cleanup_expired() has returned, there are at most
\* max_blocked_ips Block Entries.
C9_AfterAnyCleanup ==
    ret.op = "cleanup_expired" => Len(blocked_ips) <= MaxBlockedIps

\* C9 amended: whenever a cleanup_expired() call that ran its sweep has
\* returned (alone or inside is_blocked), there are at most max_blocked_ips
\* Block Entries.
C9_AfterSweep ==
    (ret.op \in {"cleanup_expired", "is_blocked"} /\ ret.swept)
        => Len(blocked_ips) <= MaxBlockedIps

\* C9's case: the sweep that just returned evicted an entry by capacity: an
\* ip blocked at this instant has lost its entry and kept its count.
C9_Witness ==
    /\ ret.op = "cleanup_expired"
    /\ ret.swept
    /\ Len(blocked_ips) = MaxBlockedIps
    /\ \E ip \in IPs :
          /\ ~InDict(blocked_ips, ip)
          /\ failed_attempts[ip] >= MaxFailedAttempts
          /\ last_failed_time[ip] = now

\* C10: whenever cleanup_expired() has returned (alone or inside
\* is_blocked), sweep or no sweep, no Block Entry has an unblock_time more
\* than cleanup_interval in the past.
C10_NoStaleEntry ==
    ret.op \in {"cleanup_expired", "is_blocked"}
        => \A i \in 1..Len(blocked_ips) :
              ~(blocked_ips[i].unblock_time < now - CleanupInterval)

\* C10's case: the call returned without sweeping and an expired entry is
\* still there.
C10_Witness ==
    /\ ret.op = "cleanup_expired"
    /\ ~ret.swept
    /\ \E i \in 1..Len(blocked_ips) : blocked_ips[i].unblock_time <= now

\* C11 as claimed: whenever unblock_ip(ip) has returned, ip has no Block
\* Entry and its failure count is 0, whatever ip's state was before.
C11_UnblockClears ==
    ret.op = "unblock_ip"
        => ~InDict(blocked_ips, ret.ip) /\ failed_attempts[ret.ip] = 0

\* C11 amended: unblock_ip(ip) called for an ip that has a Block Entry
\* leaves ip without an entry and with failure count 0; called for an ip
\* without a Block Entry it changes nothing, so a nonzero count stays.
C11_UnblockClearsBlocked ==
    [][\A ip \in IPs :
          CallUnblockIp(ip)
          => IF InDict(blocked_ips, ip)
             THEN ~InDict(blocked_ips', ip) /\ failed_attempts'[ip] = 0
             ELSE UNCHANGED <<last_cleanup, failed_attempts,
                              last_failed_time, blocked_ips>>
      ]_vars

\* C11's case: unblock_ip has just removed the Block Entry of an ip whose
\* last failure is still on record.
C11_Witness ==
    /\ ret.op = "unblock_ip"
    /\ ret.value
    /\ failed_attempts[ret.ip] = 0
    /\ last_failed_time[ret.ip] # NoTime

\* C15: is_blocked(ip) returns true exactly when, after its cleanup step, ip
\* has a Block Entry with unblock_time later than now; called for an ip
\* whose entry has unblock_time <= now it leaves ip without an entry and
\* with count 0 and returns false; called for an ip without an entry it
\* leaves ip's count as it was and returns false.
C15_IsBlockedContract ==
    [][\A ip \in IPs :
          CallIsBlocked(ip)
          => LET after == cleanup_expired(Guard, now).blocked_ips
             IN /\ ret'.value = (/\ InDict(after, ip)
                                 /\ DictGet(after, ip) > now)
                /\ (InDict(blocked_ips, ip) /\ DictGet(blocked_ips, ip) <= now)
                       => /\ ~InDict(blocked_ips', ip)
                          /\ failed_attempts'[ip] = 0
                          /\ ret'.value = FALSE
                /\ ~InDict(blocked_ips, ip)
                       => /\ failed_attempts'[ip] = failed_attempts[ip]
                          /\ ret'.value = FALSE
      ]_vars

\* C15's case: is_blocked(ip) has just answered false for an ip whose
\* unexpired entry its own cleanup step evicted by capacity.
C15_Witness ==
    /\ ret.op = "is_blocked"
    /\ ret.swept
    /\ ret.value = FALSE
    /\ ~InDict(blocked_ips, ret.ip)
    /\ failed_attempts[ret.ip] >= MaxFailedAttempts
    /\ last_failed_time[ret.ip] + BlockDuration > now

C18_UnblockedBelowLimit ==
    \A ip \in IPs :
        ~InDict(blocked_ips, ip) => failed_attempts[ip] < MaxFailedAttempts

\* C20: whenever get_block_info(ip) has returned, its blocked field is the
\* answer is_blocked(ip) gives at the same instant.
C20_InfoAgreesWithIsBlocked ==
    ret.op = "get_block_info"
        => ret.value = is_blocked(Guard, ret.ip, now).value

\* C13: whenever the running worker is about to wait, no add_operation call
\* is under way and the queue holds batch_size operations or more, the flush
\* signal is set (so that the wait returns at once).
C13_BacklogSignalled ==
    \A w \in Workers :
        (/\ running
         /\ pc[w] = "wait"
         /\ ppc = "idle"
         /\ Len(queue) >= BatchSize)
        => flush_event

\* The seqs of the operations whose commit was attempted.
Attempted ==
    {applied[i].seq : i \in 1..Len(applied)}
        \cup {discarded[i].seq : i \in 1..Len(discarded)}

\* C14: with the worker started and stop() not called, every submitted
\* operation is eventually dequeued and its commit attempted, whatever
\* commits failed before.
C14_EverySubmissionAttempted ==
    \A n \in 1..MaxBacklog :
        (running /\ Len(submitted) >= n) ~> (n \in Attempted)

\* C14's case: the worker lost a batch to a failed commit and has since
\* committed an operation submitted later.
C14_Witness ==
    /\ running
    /\ \E i \in 1..Len(discarded) : \E j \in 1..Len(applied) :
          discarded[i].seq < applied[j].seq

\* C12: no guard operation ever raises, whatever the interleaving of the
\* calls made on different threads.
C12_NeverRaises == raised = "none"

\* No record_failed_attempt call is under way.
PoolIdle == \A p \in Pool : tpc[p] = "idle"

\* C17: when K record_failed_attempt(ip) calls, made on different threads
\* within block_duration of one another for an ip that had no failures,
\* have all returned, ip's count is K, and ip has a Block Entry if K has
\* reached max_failed_attempts.
C17_NoLostUpdate ==
    \A ip \in IPs :
        (PoolIdle /\ returned[ip] >= 0)
        => /\ failed_attempts[ip] = returned[ip]
           /\ returned[ip] >= MaxFailedAttempts => InDict(blocked_ips, ip)

\* C19: in every state with no guard call under way, every Block Entry
\* with unblock_time later than now has unblock_time =
\* last_failed_time[ip] + block_duration and a count of max_failed_attempts
\* or more.
C19_EntryMatchesRecord ==
    (PoolIdle /\ lpc = "idle")
    => \A i \in 1..Len(blocked_ips) :
          LET e == blocked_ips[i]
          IN e.unblock_time > now
             => /\ e.unblock_time = last_failed_time[e.ip] + BlockDuration
                /\ failed_attempts[e.ip] >= MaxFailedAttempts

=============================================================================
